---- MODULE Spec2Model ----
(***************************************************************************)
(* notzod: schema nodes, the recursive interpreter (_parse), the routines  *)
(* that compile() stores in a node's cache slot (_compiledParse), and the  *)
(* entry points parse / safeParse that run the cached routine.             *)
(*                                                                         *)
(* A JavaScript value is a record with a tag t and one payload field per   *)
(* tag (the unused payloads hold fixed defaults), so that any two values   *)
(* can be compared.                                                        *)
(***************************************************************************)
EXTENDS Integers, Sequences, FiniteSets, TLC

VARIABLES root, cache, op, heap, lastIndex, kept, callers

vars == <<root, cache, op, heap, lastIndex, kept, callers>>

(***************************************************************************)
(* Bounds of the input corpus.                                             *)
(***************************************************************************)
MaxArrayLen == 2
MaxProps == 2
\* the number of nodes the program builds with builder calls after construction
MaxBuilt == 1
\* the number of validations of one node that are under way at the same time
MaxCallers == 2

(***************************************************************************)
(* JavaScript values.                                                      *)
(***************************************************************************)
Val(t, s, n, b, xs, ps) == [t |-> t, s |-> s, n |-> n, b |-> b, xs |-> xs, ps |-> ps]

Undefined == Val("undefined", "", 0, FALSE, <<>>, <<>>)

Null == Val("null", "", 0, FALSE, <<>>, <<>>)

NaN == Val("nan", "", 0, FALSE, <<>>, <<>>)

Str(s) == Val("string", s, 0, FALSE, <<>>, <<>>)

Num(n) == Val("number", "", n, FALSE, <<>>, <<>>)

Bool(b) == Val("boolean", "", 0, b, <<>>, <<>>)

\* an array: xs are its elements
Arr(xs) == Val("array", "", 0, FALSE, xs, <<>>)

\* a plain object: ps are its own properties [k, v] in insertion order
Obj(ps) == Val("object", "", 0, FALSE, <<>>, ps)

Prop(k, v) == [k |-> k, v |-> v]

\* typeof value
TypeOf(v) ==
    CASE v.t = "undefined" -> "undefined"
      [] v.t = "string" -> "string"
      [] v.t \in {"number", "nan"} -> "number"
      [] v.t = "boolean" -> "boolean"
      [] OTHER -> "object"

\* Array.isArray(value)
IsArray(v) == v.t = "array"

\* value[key] for a property name that is neither an index nor "length"
GetProp(v, key) ==
    IF v.t = "object" /\ \E i \in 1..Len(v.ps) : v.ps[i].k = key
    THEN v.ps[CHOOSE i \in 1..Len(v.ps) : v.ps[i].k = key].v
    ELSE Undefined

\* the own property names of an object value
Keys(v) == {v.ps[i].k : i \in 1..Len(v.ps)}

(***************************************************************************)
(* Validation results.  A routine either returns a ValidationSuccess, or   *)
(* returns a ValidationError, or does not return at all because a          *)
(* TypeError was raised while it ran (kind "TypeError").                   *)
(***************************************************************************)
Success(data) == [kind |-> "success", data |-> data, path |-> <<>>, message |-> ""]

Failure(message, path, data) ==
    [kind |-> "failure", data |-> data, path |-> path, message |-> message]

\* no outcome: nothing has been validated
NoOutcome == [kind |-> "none", data |-> Undefined, path |-> <<>>, message |-> ""]

TypeError == [kind |-> "TypeError", data |-> Undefined, path |-> <<>>, message |-> ""]

RECURSIVE Join(_, _)
\* path.join(sep)
Join(path, sep) ==
    IF Len(path) = 0 THEN ""
    ELSE IF Len(path) = 1 THEN path[1]
    ELSE path[1] \o sep \o Join(Tail(path), sep)

\* the message of new ValidationErrorImpl(error)
ValidationErrorImpl(error) ==
    LET pathStr == IF Len(error.path) # 0 THEN Join(error.path, ".") ELSE "<root>"
    IN pathStr \o ": " \o error.message

\* the message of the TypeError raised on reading a property of undefined
TypeErrorMessage == "Cannot read properties of undefined"

\* the result of running a routine: its outcome, the calls it made, in order, and
\* the lastIndex of every RegExp object when it returns
Ret(out, li) == [out |-> out, log |-> <<>>, li |-> li]

\* a call made by the running routine itself (depth 0)
Call(fn, node, value, path) ==
    [fn |-> fn, node |-> node, value |-> value, path |-> path, depth |-> 0]

\* the calls of a callee, seen from its caller: one level deeper
Deeper(log) == [i \in 1..Len(log) |-> [log[i] EXCEPT !.depth = @ + 1]]

\* a call of a child followed by everything the child did
After(log, call, r) ==
    [out |-> r.out, log |-> log \o <<call>> \o Deeper(r.log), li |-> r.li]

(***************************************************************************)
(* Schema nodes.  An absent numeric option (undefined) is <<>>, a present  *)
(* one is <<n>>; a node refers to its children by node number and to its   *)
(* pattern by the number of the RegExp object (0: undefined).              *)
(***************************************************************************)
Node(kind) ==
    [type |-> kind, path |-> <<>>,
     minLength |-> <<>>, maxLength |-> <<>>, pattern |-> 0,
     min |-> <<>>, max |-> <<>>, isPositive |-> FALSE, isNegative |-> FALSE,
     strictTrue |-> FALSE, strictFalse |-> FALSE,
     value |-> Undefined,
     elementSchema |-> 0,
     shape |-> <<>>,
     schemas |-> <<>>,
     schema |-> 0, refineFn |-> "", errorMessage |-> "",
     inputSchema |-> 0, outputSchema |-> 0]

Field(k, n) == [k |-> k, schema |-> n]

\* refine(refineFn, errorMessage = "Failed refinement check")
DefaultRefineMessage == "Failed refinement check"

\* a RegExp object: its source and whether it has the g flag
RegExp(source, global) == [source |-> source, global |-> global]

\* the RegExp objects the program has created, one per evaluated literal:
\* 1: /^[a-z]+$/   2, 3, 4: /a/g
Patterns ==
    <<RegExp("^[a-z]+$", FALSE), RegExp("a", TRUE), RegExp("a", TRUE), RegExp("a", TRUE)>>

PatternIds == 1..Len(Patterns)

Lower ==
    {"a", "b", "c", "d", "e", "f", "g", "h", "i", "j", "k", "l", "m",
     "n", "o", "p", "q", "r", "s", "t", "u", "v", "w", "x", "y", "z"}

\* the character of s at index i (from 0)
CharAt(s, i) == SubSeq(s, i + 1, i + 1)

\* the index just after the leftmost match of the pattern in s that starts at
\* index from or later, -1 if there is none
MatchEnd(re, s, from) ==
    CASE re.source = "a" ->
           LET hits == {i \in from..(Len(s) - 1) : CharAt(s, i) = "a"} IN
           IF hits = {} THEN -1
           ELSE (CHOOSE i \in hits : \A j \in hits : i <= j) + 1
      [] re.source = "^[a-z]+$" ->
           IF from = 0 /\ Len(s) > 0 /\ \A i \in 0..(Len(s) - 1) : CharAt(s, i) \in Lower
           THEN Len(s) ELSE -1

\* pattern.test(s) on a RegExp object whose lastIndex is li: the result and the
\* object's lastIndex afterwards.  Without the g flag the search starts at 0 and
\* lastIndex is left alone; with it the search starts at lastIndex, a match moves
\* lastIndex to its end and a miss resets it to 0.
RegExpTest(re, li, s) ==
    LET from == IF re.global THEN li ELSE 0
        end == IF from > Len(s) THEN -1 ELSE MatchEnd(re, s, from)
    IN [result |-> end # -1,
        lastIndex |-> IF ~re.global THEN li ELSE IF end = -1 THEN 0 ELSE end]

\* the schemas the program has constructed
Schemas ==
    << \* 1: string()
       Node("string"),
       \* 2: string().min(2)
       [Node("string") EXCEPT !.minLength = <<2>>],
       \* 3: number()
       Node("number"),
       \* 4: number().min(5).max(10)
       [Node("number") EXCEPT !.min = <<5>>, !.max = <<10>>],
       \* 5: boolean()
       Node("boolean"),
       \* 6: literal("a")
       [Node("literal") EXCEPT !.value = Str("a")],
       \* 7: literal(1)
       [Node("literal") EXCEPT !.value = Num(1)],
       \* 8: array(number().min(5).max(10))
       [Node("array") EXCEPT !.elementSchema = 4],
       \* 9: object({name: string().min(2)})
       [Node("object") EXCEPT !.shape = <<Field("name", 2)>>],
       \* 10: object({user: object({name: string().min(2)})})
       [Node("object") EXCEPT !.shape = <<Field("user", 9)>>],
       \* 11: union([string(), number()])
       [Node("union") EXCEPT !.schemas = <<1, 3>>],
       \* 12: union([])
       Node("union"),
       \* 13: string().optional()
       [Node("optional") EXCEPT !.schema = 1],
       \* 14: string().nullable()
       [Node("nullable") EXCEPT !.schema = 1],
       \* 15: number().min(0)
       [Node("number") EXCEPT !.min = <<0>>],
       \* 16: number().min(0).refine(v => v % 2 === 0, "must be even")
       [Node("refinement") EXCEPT !.schema = 15, !.refineFn = "even",
                                  !.errorMessage = "must be even"],
       \* 17: string().pipe(string().min(2))
       [Node("pipe") EXCEPT !.inputSchema = 1, !.outputSchema = 2],
       \* 18: object({})
       Node("object"),
       \* 19: union([string().min(2), number().min(5).max(10)])
       [Node("union") EXCEPT !.schemas = <<2, 4>>],
       \* 20: array(object({name: string().min(2)}))
       [Node("array") EXCEPT !.elementSchema = 9],
       \* 21: string().refine(v => v.length > 0)
       [Node("refinement") EXCEPT !.schema = 1, !.refineFn = "nonEmpty",
                                  !.errorMessage = DefaultRefineMessage],
       \* 22: object({name: string().optional(), extra: number()})
       [Node("object") EXCEPT !.shape = <<Field("name", 13), Field("extra", 3)>>],
       \* 23: array(number(), {minLength: 1, maxLength: 1})
       [Node("array") EXCEPT !.elementSchema = 3, !.minLength = <<1>>,
                             !.maxLength = <<1>>],
       \* 24: string().optional().nullable()
       [Node("nullable") EXCEPT !.schema = 13],
       \* 25: number().positive()
       [Node("number") EXCEPT !.isPositive = TRUE],
       \* 26: number().negative()
       [Node("number") EXCEPT !.isNegative = TRUE],
       \* 27: number().min(1).max(6).positive()
       [Node("number") EXCEPT !.min = <<1>>, !.max = <<6>>, !.isPositive = TRUE],
       \* 28: new NumberSchema({isPositive: true, isNegative: true})
       [Node("number") EXCEPT !.isPositive = TRUE, !.isNegative = TRUE],
       \* 29: boolean().true()
       [Node("boolean") EXCEPT !.strictTrue = TRUE],
       \* 30: boolean().false()
       [Node("boolean") EXCEPT !.strictFalse = TRUE],
       \* 31: new BooleanSchema({strictTrue: true, strictFalse: true})
       [Node("boolean") EXCEPT !.strictTrue = TRUE, !.strictFalse = TRUE],
       \* 32: string().min(1).max(2).matches(/^[a-z]+$/)
       [Node("string") EXCEPT !.minLength = <<1>>, !.maxLength = <<2>>, !.pattern = 1],
       \* 33: const s = string().matches(/a/g)
       [Node("string") EXCEPT !.pattern = 2],
       \* 34: s.pipe(s)
       [Node("pipe") EXCEPT !.inputSchema = 33, !.outputSchema = 33],
       \* 35: literal(NaN)
       [Node("literal") EXCEPT !.value = NaN],
       \* 36: string().matches(/a/g)
       [Node("string") EXCEPT !.pattern = 3],
       \* 37: string().matches(/a/g)
       [Node("string") EXCEPT !.pattern = 4],
       \* 38: string().matches(/a/g).pipe(string().matches(/a/g))
       [Node("pipe") EXCEPT !.inputSchema = 36, !.outputSchema = 37],
       \* 39: literal(true)
       [Node("literal") EXCEPT !.value = Bool(TRUE)],
       \* 40: new StringSchema({minLength: 2, path: ["user", "name"]})
       [Node("string") EXCEPT !.minLength = <<2>>, !.path = <<"user", "name">>],
       \* 41: object({'a"b': string().min(2)})
       [Node("object") EXCEPT !.shape = <<Field("a\"b", 2)>>],
       \* 42: array(number()).min(2).max(0)
       [Node("array") EXCEPT !.elementSchema = 3, !.minLength = <<2>>,
                             !.maxLength = <<0>>],
       \* 43: number().min(0).refine(v => v % 2 === 0, "must be even")
       \*                    .refine(v => v < 5, "must be small")
       [Node("refinement") EXCEPT !.schema = 16, !.refineFn = "small",
                                  !.errorMessage = "must be small"]
    >>

NodeIds == 1..Len(Schemas)

\* the node with number n: the constructed schemas and, after them, the nodes
\* builder calls have returned
NodeOf(n) == heap[n]

\* the children of a node, in the order compile() visits them
Children(n) ==
    LET s == NodeOf(n) IN
    CASE s.type = "array" -> <<s.elementSchema>>
      [] s.type = "object" -> [i \in 1..Len(s.shape) |-> s.shape[i].schema]
      [] s.type = "union" -> s.schemas
      [] s.type \in {"optional", "nullable", "refinement"} -> <<s.schema>>
      [] s.type = "pipe" -> <<s.inputSchema, s.outputSchema>>
      [] OTHER -> <<>>

Range(f) == {f[i] : i \in DOMAIN f}

RECURSIVE Descendants(_)
\* a node and every node below it
Descendants(n) == {n} \cup UNION {Descendants(c) : c \in Range(Children(n))}

\* the refinement predicates the program passes to refine()
RefineFn(name, v) ==
    CASE name = "even" -> v.n % 2 = 0
      [] name = "nonEmpty" -> Len(v.s) > 0
      [] name = "small" -> v.n < 5
      [] OTHER -> TRUE


(***************************************************************************)
(* The interpreter: Schema._parse(value, path) of each node kind.          *)
(***************************************************************************)
\* the first failing check of a string node, or the unchanged value
StringChecks(s, v, p, li) ==
    IF TypeOf(v) # "string"
    THEN Ret(Failure("Expected string, got " \o TypeOf(v), p, v), li)
    ELSE IF s.minLength # <<>> /\ Len(v.s) < s.minLength[1]
    THEN Ret(Failure("String must be at least " \o ToString(s.minLength[1]) \o " characters", p, v), li)
    ELSE IF s.maxLength # <<>> /\ Len(v.s) > s.maxLength[1]
    THEN Ret(Failure("String must be at most " \o ToString(s.maxLength[1]) \o " characters", p, v), li)
    ELSE IF s.pattern # 0
    THEN \* this.pattern.test(value), on the node's own RegExp object
         LET t == RegExpTest(Patterns[s.pattern], li[s.pattern], v.s) IN
         Ret(IF ~t.result THEN Failure("String does not match pattern", p, v) ELSE Success(v),
             [li EXCEPT ![s.pattern] = t.lastIndex])
    ELSE Ret(Success(v), li)

\* a number check that tests the sign before the bounds
NumberChecksSignFirst(s, v, p) ==
    IF TypeOf(v) # "number" \/ v.t = "nan"
    THEN Failure("Expected number, got " \o TypeOf(v), p, v)
    ELSE IF s.isPositive /\ v.n <= 0
    THEN Failure("Number must be positive", p, v)
    ELSE IF s.isNegative /\ v.n >= 0
    THEN Failure("Number must be negative", p, v)
    ELSE IF s.min # <<>> /\ v.n < s.min[1]
    THEN Failure("Number must be at least " \o ToString(s.min[1]), p, v)
    ELSE IF s.max # <<>> /\ v.n > s.max[1]
    THEN Failure("Number must be at most " \o ToString(s.max[1]), p, v)
    ELSE Success(v)

\* NumberSchema._parse
NumberChecks(s, v, p) ==
    IF TypeOf(v) # "number" \/ v.t = "nan"
    THEN Failure("Expected number, got " \o TypeOf(v), p, v)
    ELSE IF s.min # <<>> /\ v.n < s.min[1]
    THEN Failure("Number must be at least " \o ToString(s.min[1]), p, v)
    ELSE IF s.max # <<>> /\ v.n > s.max[1]
    THEN Failure("Number must be at most " \o ToString(s.max[1]), p, v)
    ELSE IF s.isPositive /\ v.n <= 0
    THEN Failure("Number must be positive", p, v)
    ELSE IF s.isNegative /\ v.n >= 0
    THEN Failure("Number must be negative", p, v)
    ELSE Success(v)

BooleanChecks(s, v, p) ==
    IF TypeOf(v) # "boolean"
    THEN Failure("Expected boolean, got " \o TypeOf(v), p, v)
    ELSE IF s.strictTrue /\ v.b # TRUE
    THEN Failure("Boolean must be true", p, v)
    ELSE IF s.strictFalse /\ v.b # FALSE
    THEN Failure("Boolean must be false", p, v)
    ELSE Success(v)

RECURSIVE JSONStringify(_), JSONElements(_, _), JSONProps(_, _, _)
\* JSON.stringify(value); the text "undefined" stands for the result undefined,
\* which is what the message concatenation makes of it
JSONStringify(v) ==
    CASE v.t = "string" -> "\"" \o v.s \o "\""
      [] v.t = "number" -> ToString(v.n)
      [] v.t = "boolean" -> (IF v.b THEN "true" ELSE "false")
      [] v.t \in {"null", "nan"} -> "null"
      [] v.t = "undefined" -> "undefined"
      [] v.t = "array" -> "[" \o JSONElements(v.xs, 1) \o "]"
      [] OTHER -> "{" \o JSONProps(v.ps, 1, TRUE) \o "}"

\* the elements of an array from the i-th on; undefined is written as null
JSONElements(xs, i) ==
    IF i > Len(xs) THEN ""
    ELSE (IF i > 1 THEN "," ELSE "")
         \o (IF xs[i].t = "undefined" THEN "null" ELSE JSONStringify(xs[i]))
         \o JSONElements(xs, i + 1)

\* the properties of an object from the i-th on; undefined ones are left out
JSONProps(ps, i, first) ==
    IF i > Len(ps) THEN ""
    ELSE IF ps[i].v.t = "undefined" THEN JSONProps(ps, i + 1, first)
    ELSE (IF first THEN "" ELSE ",")
         \o "\"" \o ps[i].k \o "\":" \o JSONStringify(ps[i].v)
         \o JSONProps(ps, i + 1, FALSE)

\* value !== this.value
StrictNotEqual(v, w) == IF v.t = "nan" \/ w.t = "nan" THEN TRUE ELSE v # w

LiteralChecks(s, v, p) ==
    IF StrictNotEqual(v, s.value)
    THEN Failure("Expected " \o JSONStringify(s.value) \o ", got " \o JSONStringify(v), p, v)
    ELSE Success(s.value)

\* an array head that checks the maximum length before the minimum length
ArrayHeadMaxFirst(s, v, p) ==
    IF ~IsArray(v)
    THEN Failure("Expected array, got " \o TypeOf(v), p, v)
    ELSE IF s.maxLength # <<>> /\ Len(v.xs) > s.maxLength[1]
    THEN Failure("Array must have at most " \o ToString(s.maxLength[1]) \o " elements", p, v)
    ELSE IF s.minLength # <<>> /\ Len(v.xs) < s.minLength[1]
    THEN Failure("Array must have at least " \o ToString(s.minLength[1]) \o " elements", p, v)
    ELSE Success(v)

\* the array's checks that come before the element loop; "success" means the loop runs
ArrayHead(s, v, p) ==
    IF ~IsArray(v)
    THEN Failure("Expected array, got " \o TypeOf(v), p, v)
    ELSE IF s.minLength # <<>> /\ Len(v.xs) < s.minLength[1]
    THEN Failure("Array must have at least " \o ToString(s.minLength[1]) \o " elements", p, v)
    ELSE IF s.maxLength # <<>> /\ Len(v.xs) > s.maxLength[1]
    THEN Failure("Array must have at most " \o ToString(s.maxLength[1]) \o " elements", p, v)
    ELSE Success(v)

\* typeof value !== "object" || value === null
NotAnObject(v) == TypeOf(v) # "object" \/ v.t = "null"

ObjectHead(v, p) ==
    IF NotAnObject(v)
    THEN Failure("Expected object, got " \o (IF v.t = "null" THEN "null" ELSE TypeOf(v)), p, v)
    ELSE Success(v)

\* a result record that starts as a copy of the input's own properties
\* (const result = {...value}) instead of empty
FreshResultCopy(v) == IF v.t = "object" THEN v.ps ELSE <<>>

\* const result = {}: the result record starts empty whatever the input is
FreshResult(v) == <<>>

\* result[key] = fieldResult.data
SetField(ps, key, data) ==
    IF \E i \in 1..Len(ps) : ps[i].k = key
    THEN [i \in 1..Len(ps) |-> IF ps[i].k = key THEN Prop(key, data) ELSE ps[i]]
    ELSE Append(ps, Prop(key, data))

RECURSIVE JoinMessages(_, _)
\* errors.map(e => e.error.message).join("; ") from the i-th error on
JoinMessages(errors, i) ==
    IF i > Len(errors) THEN ""
    ELSE IF i = Len(errors) THEN errors[i].message
    ELSE errors[i].message \o "; " \o JoinMessages(errors, i + 1)

UnionFailure(errors, v, p) ==
    Failure("Value does not match any schema in union: " \o JoinMessages(errors, 1), p, v)

RefinementFailure(s, p, data) == Failure(s.errorMessage, p, data)

RECURSIVE Interp(_, _, _, _), InterpElements(_, _, _, _, _, _, _), InterpFields(_, _, _, _, _, _, _), InterpUnion(_, _, _, _, _, _, _)
\* node._parse(value, path), started with the RegExp objects' lastIndex at li
Interp(n, v, p, li) ==
    LET s == NodeOf(n) IN
    CASE s.type = "string" -> StringChecks(s, v, p, li)
      [] s.type = "number" -> Ret(NumberChecks(s, v, p), li)
      [] s.type = "boolean" -> Ret(BooleanChecks(s, v, p), li)
      [] s.type = "literal" -> Ret(LiteralChecks(s, v, p), li)
      [] s.type = "array" ->
           IF ArrayHead(s, v, p).kind # "success" THEN Ret(ArrayHead(s, v, p), li)
           ELSE InterpElements(n, v, p, 1, <<>>, <<>>, li)
      [] s.type = "object" ->
           IF ObjectHead(v, p).kind # "success" THEN Ret(ObjectHead(v, p), li)
           ELSE InterpFields(n, v, p, 1, FreshResult(v), <<>>, li)
      [] s.type = "union" -> InterpUnion(n, v, p, 1, <<>>, <<>>, li)
      [] s.type = "optional" ->
           IF v.t = "undefined" THEN Ret(Success(Undefined), li)
           ELSE After(<<>>, Call("_parse", s.schema, v, p), Interp(s.schema, v, p, li))
      [] s.type = "nullable" ->
           IF v.t = "null" THEN Ret(Success(Null), li)
           ELSE After(<<>>, Call("_parse", s.schema, v, p), Interp(s.schema, v, p, li))
      [] s.type = "refinement" ->
           LET r == After(<<>>, Call("_parse", s.schema, v, p), Interp(s.schema, v, p, li)) IN
           IF r.out.kind # "success" THEN r
           ELSE LET log == Append(r.log, Call("refineFn", n, r.out.data, p)) IN
                IF ~RefineFn(s.refineFn, r.out.data)
                THEN [out |-> RefinementFailure(s, p, r.out.data), log |-> log, li |-> r.li]
                ELSE [out |-> r.out, log |-> log, li |-> r.li]
      [] s.type = "pipe" ->
           LET r == After(<<>>, Call("_parse", s.inputSchema, v, p),
                          Interp(s.inputSchema, v, p, li)) IN
           IF r.out.kind # "success" THEN r
           ELSE After(r.log, Call("_parse", s.outputSchema, r.out.data, p),
                      Interp(s.outputSchema, r.out.data, p, r.li))

\* the element loop of ArraySchema._parse from index i - 1 on
InterpElements(n, v, p, i, result, log, li) ==
    IF i > Len(v.xs) THEN [out |-> Success(Arr(result)), log |-> log, li |-> li]
    ELSE LET elementPath == Append(p, ToString(i - 1))
             child == NodeOf(n).elementSchema
             r == After(log, Call("_parse", child, v.xs[i], elementPath),
                        Interp(child, v.xs[i], elementPath, li))
         IN IF r.out.kind # "success" THEN r
            ELSE InterpElements(n, v, p, i + 1, Append(result, r.out.data), r.log, r.li)

\* the field loop of ObjectSchema._parse from the i-th declared field on
InterpFields(n, v, p, i, result, log, li) ==
    IF i > Len(NodeOf(n).shape) THEN [out |-> Success(Obj(result)), log |-> log, li |-> li]
    ELSE LET key == NodeOf(n).shape[i].k
             fieldPath == Append(p, key)
             child == NodeOf(n).shape[i].schema
             r == After(log, Call("_parse", child, GetProp(v, key), fieldPath),
                        Interp(child, GetProp(v, key), fieldPath, li))
         IN IF r.out.kind # "success" THEN r
            ELSE InterpFields(n, v, p, i + 1, SetField(result, key, r.out.data), r.log, r.li)

\* the loop of UnionSchema._parse from the i-th alternative on
InterpUnion(n, v, p, i, errors, log, li) ==
    IF i > Len(NodeOf(n).schemas)
    THEN [out |-> UnionFailure(errors, v, p), log |-> log, li |-> li]
    ELSE LET child == NodeOf(n).schemas[i]
             r == After(log, Call("_parse", child, v, p), Interp(child, v, p, li))
         IN IF r.out.kind = "success" THEN r
            ELSE InterpUnion(n, v, p, i + 1, Append(errors, r.out), r.log, r.li)


(***************************************************************************)
(* The cache slot _compiledParse and the routines compile() stores in it.  *)
(* A slot is "empty" (undefined), "jit" (the routine built by new Function *)
(* from the generated text) or "bound" (this._parse.bind(this), stored     *)
(* when new Function rejects the generated text).                          *)
(*                                                                         *)
(* parse and safeParse run the cached routine as                           *)
(*     this.getCompiledParser()(value, this.path)                          *)
(* which is a plain function call.  A routine built by new Function is not *)
(* bound and is not strict-mode code, so inside it `this` is the global    *)
(* object and not the node.  A "bound" routine has the node as its `this`. *)
(***************************************************************************)
\* the key, written between double quotes in the generated text, ends the
\* string early
BreaksQuotes(key) == \E i \in 0..(Len(key) - 1) : CharAt(key, i) = "\""

\* new Function throws a SyntaxError on the generated text: the text of a string
\* literal's message is "Expected " followed by the quoted literal, which ends
\* the message's string early; an object's text quotes every declared key
TextRejected(n) ==
    \/ NodeOf(n).type = "literal" /\ NodeOf(n).value.t = "string"
    \/ NodeOf(n).type = "object"
         /\ \E i \in 1..Len(NodeOf(n).shape) : BreaksQuotes(NodeOf(n).shape[i].k)

\* a compile() without the fallback: the slot always holds the generated routine
CompiledRoutineGeneratedOnly(n) == "jit"

\* what compile() leaves in the slot of node n
CompiledRoutine(n) == IF TextRejected(n) THEN "bound" ELSE "jit"

\* a compile() that stores the bound interpreter when the slot is already populated
StoreInterpreterOnRewrite(n, c) ==
    [c EXCEPT ![n] = IF c[n] = "empty" THEN CompiledRoutine(n) ELSE "bound"]

\* this._compiledParse = the routine compile() built for node n
Store(n, c) == [c EXCEPT ![n] = CompiledRoutine(n)]

RECURSIVE Compile(_, _), CompileChildren(_, _, _)
\* the cache slots after node.compile()
Compile(n, c) ==
    LET c1 == CompileChildren(Children(n), 1, c) IN
    Store(n, c1)

\* child.compile() for the children from the i-th on
CompileChildren(cs, i, c) ==
    IF i > Len(cs) THEN c ELSE CompileChildren(cs, i + 1, Compile(cs[i], c))

RECURSIVE CompileWrites(_), ChildrenWrites(_, _)
\* the slots node.compile() writes, in the order it writes them
CompileWrites(n) == ChildrenWrites(Children(n), 1) \o <<n>>

\* the slots written by child.compile() for the children from the i-th on
ChildrenWrites(cs, i) ==
    IF i > Len(cs) THEN <<>> ELSE CompileWrites(cs[i]) \o ChildrenWrites(cs, i + 1)

\* a getCompiledParser that compiles whatever the slot holds
SlotEmptyAlways(n, c) == TRUE

\* !this._compiledParse
SlotEmpty(n, c) == c[n] = "empty"

\* the cache slots after node.getCompiledParser()
GetCompiledParser(n, c) == IF SlotEmpty(n, c) THEN Compile(n, c) ELSE c

\* the slots node.getCompiledParser() writes
GetCompiledParserWrites(n, c) == IF SlotEmpty(n, c) THEN CompileWrites(n) ELSE <<>>

\* the generated text of StringSchema.compile
JitStringChecks(s, v, p) ==
    IF TypeOf(v) # "string"
    THEN Failure("Expected string, got " \o TypeOf(v), p, v)
    ELSE IF s.minLength # <<>> /\ Len(v.s) < s.minLength[1]
    THEN Failure("String must be at least " \o ToString(s.minLength[1]) \o " characters", p, v)
    ELSE IF s.maxLength # <<>> /\ Len(v.s) > s.maxLength[1]
    THEN Failure("String must be at most " \o ToString(s.maxLength[1]) \o " characters", p, v)
    \* the text holds the pattern as a regular expression literal, and every run
    \* of the routine evaluates the literal to a new RegExp object (lastIndex 0)
    ELSE IF s.pattern # 0 /\ ~RegExpTest(Patterns[s.pattern], 0, v.s).result
    THEN Failure("String does not match pattern", p, v)
    ELSE Success(v)

\* generated text whose bounds are exclusive
JitNumberChecksExclusive(s, v, p) ==
    IF TypeOf(v) # "number" \/ v.t = "nan"
    THEN Failure("Expected number, got " \o TypeOf(v), p, v)
    ELSE IF s.min # <<>> /\ v.n <= s.min[1]
    THEN Failure("Number must be at least " \o ToString(s.min[1]), p, v)
    ELSE IF s.max # <<>> /\ v.n >= s.max[1]
    THEN Failure("Number must be at most " \o ToString(s.max[1]), p, v)
    ELSE IF s.isPositive /\ v.n <= 0
    THEN Failure("Number must be positive", p, v)
    ELSE IF s.isNegative /\ v.n >= 0
    THEN Failure("Number must be negative", p, v)
    ELSE Success(v)

\* the generated text of NumberSchema.compile
JitNumberChecks(s, v, p) ==
    IF TypeOf(v) # "number" \/ v.t = "nan"
    THEN Failure("Expected number, got " \o TypeOf(v), p, v)
    ELSE IF s.min # <<>> /\ v.n < s.min[1]
    THEN Failure("Number must be at least " \o ToString(s.min[1]), p, v)
    ELSE IF s.max # <<>> /\ v.n > s.max[1]
    THEN Failure("Number must be at most " \o ToString(s.max[1]), p, v)
    ELSE IF s.isPositive /\ v.n <= 0
    THEN Failure("Number must be positive", p, v)
    ELSE IF s.isNegative /\ v.n >= 0
    THEN Failure("Number must be negative", p, v)
    ELSE Success(v)

\* the generated text of BooleanSchema.compile
JitBooleanChecks(s, v, p) ==
    IF TypeOf(v) # "boolean"
    THEN Failure("Expected boolean, got " \o TypeOf(v), p, v)
    ELSE IF s.strictTrue /\ v.b # TRUE
    THEN Failure("Boolean must be true", p, v)
    ELSE IF s.strictFalse /\ v.b # FALSE
    THEN Failure("Boolean must be false", p, v)
    ELSE Success(v)

\* the value the text JSON.stringify(this.value) denotes in the generated code
ExpectedValue(w) == IF w.t = "nan" THEN Null ELSE w

\* the generated text of LiteralSchema.compile
JitLiteralChecks(s, v, p) ==
    IF StrictNotEqual(v, ExpectedValue(s.value))
    THEN Failure("Expected " \o JSONStringify(s.value) \o ", got " \o JSONStringify(v), p, v)
    ELSE Success(ExpectedValue(s.value))

\* this.schema.getCompiledParser(), this.elementSchema.getCompiledParser(),
\* this.shape[key], this.schemas.length, this.inputSchema.getCompiledParser()
\* inside a generated routine: `this` is the global object, on which the property
\* `name` is undefined, and reading a property of undefined raises a TypeError
\* before any child routine is called
ThisChild(name, li) == Ret(TypeError, li)

\* the routine new Function builds from the text compile() generates for node n
Jit(n, v, p, li) ==
    LET s == NodeOf(n) IN
    CASE s.type = "string" -> Ret(JitStringChecks(s, v, p), li)
      [] s.type = "number" -> Ret(JitNumberChecks(s, v, p), li)
      [] s.type = "boolean" -> Ret(JitBooleanChecks(s, v, p), li)
      [] s.type = "literal" -> Ret(JitLiteralChecks(s, v, p), li)
      [] s.type = "array" ->
           IF ArrayHead(s, v, p).kind # "success" THEN Ret(ArrayHead(s, v, p), li)
           \* for (let i = 0; i < value.length; i++) { this.elementSchema... }
           ELSE IF Len(v.xs) = 0 THEN Ret(Success(Arr(<<>>)), li)
           ELSE ThisChild("elementSchema", li)
      [] s.type = "object" ->
           IF ObjectHead(v, p).kind # "success" THEN Ret(ObjectHead(v, p), li)
           \* const result = {}; one block per declared key: this.shape["key"]...
           ELSE IF Len(s.shape) = 0 THEN Ret(Success(Obj(FreshResult(v))), li)
           ELSE ThisChild("shape", li)
      [] s.type = "union" -> ThisChild("schemas", li)
      [] s.type = "optional" ->
           IF v.t = "undefined" THEN Ret(Success(Undefined), li) ELSE ThisChild("schema", li)
      [] s.type = "nullable" ->
           IF v.t = "null" THEN Ret(Success(Null), li) ELSE ThisChild("schema", li)
      [] s.type = "refinement" -> ThisChild("schema", li)
      [] s.type = "pipe" -> ThisChild("inputSchema", li)

\* the routine in the populated slot c[n], run on (value, path)
Routine(n, v, p, c, li) ==
    IF c[n] = "bound" THEN Interp(n, v, p, li) ELSE Jit(n, v, p, li)

(***************************************************************************)
(* The builders.  Each one constructs a node from the receiver's fields    *)
(* and its argument; s is the receiver and r its node number.              *)
(***************************************************************************)
\* StringSchema.min(length)
StringMin(s, length) ==
    [Node("string") EXCEPT !.minLength = <<length>>, !.maxLength = s.maxLength,
                           !.pattern = s.pattern, !.path = s.path]

\* a max(length) that does not hand on the receiver's pattern
StringMaxWithoutPattern(s, length) ==
    [Node("string") EXCEPT !.minLength = s.minLength, !.maxLength = <<length>>,
                           !.path = s.path]

\* StringSchema.max(length)
StringMax(s, length) ==
    [Node("string") EXCEPT !.minLength = s.minLength, !.maxLength = <<length>>,
                           !.pattern = s.pattern, !.path = s.path]

\* StringSchema.matches(pattern)
StringMatches(s, pattern) ==
    [Node("string") EXCEPT !.minLength = s.minLength, !.maxLength = s.maxLength,
                           !.pattern = pattern, !.path = s.path]

\* NumberSchema.min(val)
NumberMin(s, val) ==
    [Node("number") EXCEPT !.min = <<val>>, !.max = s.max, !.isPositive = s.isPositive,
                           !.isNegative = s.isNegative, !.path = s.path]

\* NumberSchema.max(val)
NumberMax(s, val) ==
    [Node("number") EXCEPT !.min = s.min, !.max = <<val>>, !.isPositive = s.isPositive,
                           !.isNegative = s.isNegative, !.path = s.path]

\* NumberSchema.positive(): isPositive: true, isNegative: false
NumberPositive(s) ==
    [Node("number") EXCEPT !.min = s.min, !.max = s.max, !.isPositive = TRUE,
                           !.isNegative = FALSE, !.path = s.path]

\* NumberSchema.negative(): isPositive: false, isNegative: true
NumberNegative(s) ==
    [Node("number") EXCEPT !.min = s.min, !.max = s.max, !.isPositive = FALSE,
                           !.isNegative = TRUE, !.path = s.path]

\* BooleanSchema.true(): strictTrue: true, strictFalse: undefined
BooleanTrue(s) ==
    [Node("boolean") EXCEPT !.strictTrue = TRUE, !.strictFalse = FALSE, !.path = s.path]

\* BooleanSchema.false(): strictTrue: undefined, strictFalse: true
BooleanFalse(s) ==
    [Node("boolean") EXCEPT !.strictTrue = FALSE, !.strictFalse = TRUE, !.path = s.path]

\* ArraySchema.min(length): {...this.options, minLength: length, path: this.path}
ArrayMin(s, length) ==
    [Node("array") EXCEPT !.elementSchema = s.elementSchema, !.minLength = <<length>>,
                          !.maxLength = s.maxLength, !.path = s.path]

\* ArraySchema.max(length): {...this.options, maxLength: length, path: this.path}
ArrayMax(s, length) ==
    [Node("array") EXCEPT !.elementSchema = s.elementSchema, !.minLength = s.minLength,
                          !.maxLength = <<length>>, !.path = s.path]

\* the schema a shape declares for key, 0 if it declares none
FieldSchema(shape, key) ==
    IF \E i \in 1..Len(shape) : shape[i].k = key
    THEN shape[CHOOSE i \in 1..Len(shape) : shape[i].k = key].schema
    ELSE 0

\* a spread in which a key of both shapes keeps the schema of the first
SpreadFirstWins(a, b) ==
    a \o SelectSeq(b, LAMBDA f : FieldSchema(a, f.k) = 0)

\* {...a, ...b}: the keys of a in their order, a key of both holding b's schema,
\* then the keys only b has, in their order
Spread(a, b) ==
    [i \in 1..Len(a) |->
        IF FieldSchema(b, a[i].k) # 0 THEN Field(a[i].k, FieldSchema(b, a[i].k)) ELSE a[i]]
    \o SelectSeq(b, LAMBDA f : FieldSchema(a, f.k) = 0)

\* ObjectSchema.extend(shape)
ObjectExtend(s, shape) ==
    [Node("object") EXCEPT !.shape = Spread(s.shape, shape), !.path = s.path]

\* Schema.optional(): new OptionalSchema(this)
Optional(r) == [Node("optional") EXCEPT !.schema = r, !.path = NodeOf(r).path]

\* Schema.nullable(): new NullableSchema(this)
Nullable(r) == [Node("nullable") EXCEPT !.schema = r, !.path = NodeOf(r).path]

\* Schema.refine(refineFn, errorMessage)
Refine(r, refineFn, errorMessage) ==
    [Node("refinement") EXCEPT !.schema = r, !.refineFn = refineFn,
                               !.errorMessage = errorMessage, !.path = NodeOf(r).path]

\* Schema.pipe(schema): new PipeSchema(this, schema)
Pipe(r, schema) ==
    [Node("pipe") EXCEPT !.inputSchema = r, !.outputSchema = schema, !.path = NodeOf(r).path]

\* a builder that writes the node it constructs over its receiver as well
AllocateOverReceiver(h, r, node) == Append([h EXCEPT ![r] = node], node)

\* new ...Schema(...): the constructed node is a new object; the receiver r and
\* every other node stay as they are
Allocate(h, r, node) == Append(h, node)

(***************************************************************************)
(* The input corpus.                                                       *)
(***************************************************************************)
Scalars ==
    {Undefined, Null, NaN, Str(""), Str("J"), Str("ab"), Str("a"), Str("123"),
     Num(-2), Num(0), Num(1), Num(3), Num(6), Num(11), Bool(TRUE), Bool(FALSE)}

\* the property names inputs use, in the order inputs list them
InputKeys == <<"name", "extra", "age">>

PropValues == {Str("J"), Str("ab"), Num(6)}

RECURSIVE ObjectsOver(_)
\* the property lists over the first k input keys: each key absent or present
ObjectsOver(k) ==
    IF k = 0 THEN {<<>>}
    ELSE LET rest == ObjectsOver(k - 1) IN
         rest \cup {Append(ps, Prop(InputKeys[k], w)) : ps \in rest, w \in PropValues}

FlatObjects == {Obj(ps) : ps \in ObjectsOver(MaxProps)}

\* records whose property "user" is a string or a record with at most the
\* properties "name" and "extra"
NestedObjects ==
    {Obj(<<Prop("user", o)>>) :
        o \in {Str("J"), Obj(<<>>), Obj(<<Prop("name", Str("J"))>>),
               Obj(<<Prop("name", Str("ab"))>>), Obj(<<Prop("name", Num(6))>>),
               Obj(<<Prop("name", Str("ab")), Prop("extra", Num(6))>>)}}

ArrayItems ==
    {Num(3), Num(6), Obj(<<Prop("name", Str("J"))>>), Obj(<<Prop("name", Str("ab"))>>)}

Arrays == {Arr(xs) : xs \in UNION {[1..k -> ArrayItems] : k \in 0..MaxArrayLen}}

Inputs == Scalars \cup FlatObjects \cup NestedObjects \cup Arrays

(***************************************************************************)
(* The program: one schema tree (root and the nodes below it) and the      *)
(* calls made on its nodes, one at a time.  op is the call that has just   *)
(* completed and what came of it, until the caller takes the result.       *)
(***************************************************************************)
Roots == NodeIds

\* a completed call: its name, receiver, argument, what came of it, the
\* lastIndex of every RegExp object when it started, the message of the
\* exception it threw, the cache slots when it started (c) and the slots it
\* wrote, in order
Op(name, n, v, out, log, thrown, li) ==
    [name |-> name, node |-> n, value |-> v, out |-> out, log |-> log,
     thrown |-> thrown, li |-> li, message |-> "", c |-> <<>>, writes |-> <<>>]

\* a RegExp object is created with lastIndex 0
NewIndex == [q \in PatternIds |-> 0]

NoOp == Op("none", 0, Undefined, NoOutcome, <<>>, "none", NewIndex)

\* the validations that may be under way at the same time
Callers == 1..MaxCallers

\* a validation on its way through safeParse: where it is (pc), the node and the
\* value, what it saw in `if (!this._compiledParse)`, what the routine returned
\* and the lastIndex of every RegExp object when the routine started
Caller(pc, n, v, seen, out, li) ==
    [pc |-> pc, node |-> n, value |-> v, seen |-> seen, out |-> out, li |-> li]

Idle == Caller("idle", 0, Undefined, FALSE, NoOutcome, NewIndex)

Init ==
    /\ root \in Roots
    /\ heap = Schemas
    /\ cache = [n \in NodeIds |-> "empty"]
    /\ lastIndex = NewIndex
    /\ op = NoOp
    /\ kept = NoOp
    /\ callers = [t \in Callers |-> Idle]

\* node.compile()
CompileNode(n) ==
    /\ op = NoOp
    /\ cache' = Compile(n, cache)
    /\ op' = [Op("compile", n, Undefined, NoOutcome, <<>>, "none", lastIndex)
                EXCEPT !.c = cache, !.writes = CompileWrites(n)]
    /\ UNCHANGED <<root, heap, lastIndex, kept, callers>>

\* node.safeParse(value): returns what the cached routine returns
SafeParse(n, v) ==
    LET c == GetCompiledParser(n, cache)
        r == Routine(n, v, NodeOf(n).path, c, lastIndex)
    IN /\ op = NoOp
       /\ cache' = c
       /\ lastIndex' = r.li
       /\ op' = [Op("safeParse", n, v, r.out, r.log,
                     IF r.out.kind = "TypeError" THEN "TypeError" ELSE "none", lastIndex)
                   EXCEPT !.message = IF r.out.kind = "TypeError" THEN TypeErrorMessage ELSE "",
                          !.c = cache,
                          !.writes = GetCompiledParserWrites(n, cache)]
       /\ UNCHANGED <<root, heap, kept, callers>>

\* node.parse(value): returns result.data or throws ValidationErrorImpl(result.error)
Parse(n, v) ==
    LET c == GetCompiledParser(n, cache)
        r == Routine(n, v, NodeOf(n).path, c, lastIndex)
    IN /\ op = NoOp
       /\ cache' = c
       /\ lastIndex' = r.li
       /\ op' = [Op("parse", n, v, r.out, r.log,
                     CASE r.out.kind = "TypeError" -> "TypeError"
                       [] r.out.kind = "failure" -> "ValidationError"
                       [] OTHER -> "none", lastIndex)
                   EXCEPT !.message = CASE r.out.kind = "TypeError" -> TypeErrorMessage
                                        [] r.out.kind = "failure" -> ValidationErrorImpl(r.out)
                                        [] OTHER -> "",
                          !.c = cache,
                          !.writes = GetCompiledParserWrites(n, cache)]
       /\ UNCHANGED <<root, heap, kept, callers>>

\* node._parse(value, node.path): the interpreter, called directly
ParseInterpreted(n, v) ==
    LET r == Interp(n, v, NodeOf(n).path, lastIndex) IN
    /\ op = NoOp
    /\ lastIndex' = r.li
    /\ op' = Op("_parse", n, v, r.out, r.log, "none", lastIndex)
    /\ UNCHANGED <<root, heap, cache, kept, callers>>

\* a builder call on node r has returned the new node `node`, whose cache slot
\* is undefined
Built(name, r, arg, node) ==
    /\ op = NoOp
    /\ Len(heap) < Len(Schemas) + MaxBuilt
    /\ heap' = Allocate(heap, r, node)
    /\ cache' = Append(cache, "empty")
    /\ op' = Op(name, r, arg, NoOutcome, <<>>, "none", lastIndex)
    /\ UNCHANGED <<root, lastIndex, kept, callers>>

CallStringMin(r, length) ==
    NodeOf(r).type = "string" /\ Built("string.min", r, Num(length), StringMin(NodeOf(r), length))

CallStringMax(r, length) ==
    NodeOf(r).type = "string" /\ Built("string.max", r, Num(length), StringMax(NodeOf(r), length))

CallStringMatches(r, pattern) ==
    NodeOf(r).type = "string"
      /\ Built("string.matches", r, Num(pattern), StringMatches(NodeOf(r), pattern))

CallNumberMin(r, val) ==
    NodeOf(r).type = "number" /\ Built("number.min", r, Num(val), NumberMin(NodeOf(r), val))

CallNumberMax(r, val) ==
    NodeOf(r).type = "number" /\ Built("number.max", r, Num(val), NumberMax(NodeOf(r), val))

CallNumberPositive(r) ==
    NodeOf(r).type = "number" /\ Built("number.positive", r, Undefined, NumberPositive(NodeOf(r)))

CallNumberNegative(r) ==
    NodeOf(r).type = "number" /\ Built("number.negative", r, Undefined, NumberNegative(NodeOf(r)))

CallBooleanTrue(r) ==
    NodeOf(r).type = "boolean" /\ Built("boolean.true", r, Undefined, BooleanTrue(NodeOf(r)))

CallBooleanFalse(r) ==
    NodeOf(r).type = "boolean" /\ Built("boolean.false", r, Undefined, BooleanFalse(NodeOf(r)))

CallArrayMin(r, length) ==
    NodeOf(r).type = "array" /\ Built("array.min", r, Num(length), ArrayMin(NodeOf(r), length))

CallArrayMax(r, length) ==
    NodeOf(r).type = "array" /\ Built("array.max", r, Num(length), ArrayMax(NodeOf(r), length))

\* the argument is recorded as the shape's node numbers by key
CallObjectExtend(r, shape) ==
    NodeOf(r).type = "object"
      /\ Built("extend", r, Obj([i \in 1..Len(shape) |-> Prop(shape[i].k, Num(shape[i].schema))]),
               ObjectExtend(NodeOf(r), shape))

CallOptional(r) == Built("optional", r, Undefined, Optional(r))

CallNullable(r) == Built("nullable", r, Undefined, Nullable(r))

CallRefine(r, refineFn) ==
    Built("refine", r, Str(refineFn), Refine(r, refineFn, DefaultRefineMessage))

CallPipe(r, schema) == Built("pipe", r, Num(schema), Pipe(r, schema))

\* the caller keeps the result of a completed validation, if it holds none yet
Keep ==
    /\ op.name \in {"safeParse", "parse", "_parse"}
    /\ op.out.kind = "success"
    /\ kept = NoOp
    /\ kept' = op
    /\ UNCHANGED <<root, heap, cache, lastIndex, op, callers>>

\* the caller takes the result of the completed call
Return ==
    /\ op # NoOp
    /\ op' = NoOp
    /\ UNCHANGED <<root, heap, cache, lastIndex, kept, callers>>

\* the kinds of node in the program's schema tree
RootKinds == {NodeOf(d).type : d \in Descendants(root)}

\* the inputs the program validates: every scalar, an empty and a non-empty
\* array and record, and all the records (arrays) of the corpus when the tree
\* holds an object (array) schema
Corpus ==
    Scalars
      \cup {Arr(<<>>), Arr(<<Num(6)>>), Obj(<<>>), Obj(<<Prop("name", Str("ab"))>>)}
      \cup (IF "object" \in RootKinds THEN FlatObjects \cup NestedObjects ELSE {})
      \cup (IF "array" \in RootKinds THEN Arrays ELSE {})

Next ==
    \/ \E n \in Descendants(root) : CompileNode(n)
    \/ \E n \in Descendants(root), v \in Corpus : SafeParse(n, v)
    \/ \E n \in Descendants(root), v \in Corpus : Parse(n, v)
    \/ \E n \in Descendants(root), v \in Corpus : ParseInterpreted(n, v)
    \/ Return

Spec == Init /\ [][Next]_vars

(***************************************************************************)
(* The program that goes on building: builder calls on the nodes it holds, *)
(* between validations.                                                    *)
(***************************************************************************)
\* the schemas builder calls start from
BuildRoots == {32, 27, 26, 29, 23, 22}

\* the numeric argument of min and max
BuilderArgs == {2}

\* the shape passed to extend: {name: number(), age: number()}
ExtendShapes == {<<Field("name", 3), Field("age", 3)>>}

BuildInputs ==
    {Str("a"), Num(-2), Num(3), Bool(TRUE), Arr(<<Num(3)>>),
     Obj(<<Prop("name", Num(6)), Prop("extra", Num(6)), Prop("age", Num(6))>>)}

InitBuild == Init /\ root \in BuildRoots

\* the nodes the program holds in variables: the schema it started from and
\* what its builder calls have returned
Held == {root} \cup (Len(Schemas) + 1)..Len(heap)

NextBuild ==
    \/ \E r \in Held, k \in BuilderArgs : CallStringMin(r, k)
    \/ \E r \in Held, k \in BuilderArgs : CallStringMax(r, k)
    \/ \E r \in Held : CallStringMatches(r, 2)
    \/ \E r \in Held, k \in BuilderArgs : CallNumberMin(r, k)
    \/ \E r \in Held, k \in BuilderArgs : CallNumberMax(r, k)
    \/ \E r \in Held : CallNumberPositive(r)
    \/ \E r \in Held : CallNumberNegative(r)
    \/ \E r \in Held : CallBooleanTrue(r)
    \/ \E r \in Held : CallBooleanFalse(r)
    \/ \E r \in Held, k \in BuilderArgs : CallArrayMin(r, k)
    \/ \E r \in Held, k \in BuilderArgs : CallArrayMax(r, k)
    \/ \E r \in Held, shape \in ExtendShapes : CallObjectExtend(r, shape)
    \/ \E r \in Held : CallOptional(r)
    \/ \E r \in Held : CallNullable(r)
    \/ \E r \in Held : CallRefine(r, "nonEmpty")
    \/ \E r \in Held : CallPipe(r, r)
    \/ \E n \in Held, v \in BuildInputs : SafeParse(n, v)
    \/ \E n \in Held, v \in BuildInputs : ParseInterpreted(n, v)
    \/ Return

SpecBuild == InitBuild /\ [][NextBuild]_vars

(***************************************************************************)
(* Validations of one node that interleave between the statements of       *)
(* getCompiledParser and safeParse: the test of the slot, compile(), and    *)
(* the call of the routine read from the slot.  Each statement is one step. *)
(***************************************************************************)
\* a compile() that empties a populated slot instead of writing it
CompileIfSeenEmptyClears(n, c, seen) ==
    IF ~seen THEN c
    ELSE IF c[n] # "empty" THEN [c EXCEPT ![n] = "empty"] ELSE Compile(n, c)

\* if (!this._compiledParse) { this.compile() }, the test having given `seen`
CompileIfSeenEmpty(n, c, seen) == IF seen THEN Compile(n, c) ELSE c

\* this._compiledParse!(value, path): calling an undefined slot raises a TypeError
CallSlot(n, v, p, c, li) ==
    IF c[n] = "empty" THEN Ret(TypeError, li) ELSE Routine(n, v, p, c, li)

\* caller t enters node.safeParse(value) and tests the slot
Observe(t, n, v) ==
    /\ callers[t].pc = "idle"
    /\ callers' = [callers EXCEPT ![t] =
                      Caller("observed", n, v, SlotEmpty(n, cache), NoOutcome, NewIndex)]
    /\ UNCHANGED <<root, heap, cache, lastIndex, op, kept>>

\* caller t compiles the node if it saw the slot empty
CompileIfEmpty(t) ==
    /\ callers[t].pc = "observed"
    /\ cache' = CompileIfSeenEmpty(callers[t].node, cache, callers[t].seen)
    /\ callers' = [callers EXCEPT ![t].pc = "compiled"]
    /\ UNCHANGED <<root, heap, lastIndex, op, kept>>

\* caller t reads the slot and runs the routine on its value
Invoke(t) ==
    LET n == callers[t].node
        r == CallSlot(n, callers[t].value, NodeOf(n).path, cache, lastIndex)
    IN /\ callers[t].pc = "compiled"
       /\ lastIndex' = r.li
       /\ callers' = [callers EXCEPT ![t].pc = "returned", ![t].out = r.out,
                                     ![t].li = lastIndex]
       /\ UNCHANGED <<root, heap, cache, op, kept>>

\* the caller of validation t takes the result
Leave(t) ==
    /\ callers[t].pc = "returned"
    /\ callers' = [callers EXCEPT ![t] = Idle]
    /\ UNCHANGED <<root, heap, cache, lastIndex, op, kept>>

ConcurrentRoots == {6, 8, 13, 41}

ConcurrentInputs == {Str("a"), Arr(<<Num(6)>>), Obj(<<>>)}

InitConcurrent == Init /\ root \in ConcurrentRoots

NextConcurrent ==
    \/ \E t \in Callers, v \in ConcurrentInputs : Observe(t, root, v)
    \/ \E t \in Callers : CompileIfEmpty(t)
    \/ \E t \in Callers : Invoke(t)
    \/ \E t \in Callers : Leave(t)

SpecConcurrent == InitConcurrent /\ [][NextConcurrent]_vars

(***************************************************************************)
(* The program that validates repeatedly and keeps one result to compare   *)
(* later ones with.                                                        *)
(***************************************************************************)
RepeatRoots == {2, 32, 33, 34}

InitRepeat == Init /\ root \in RepeatRoots

NextRepeat == Next \/ Keep

SpecRepeat == InitRepeat /\ [][NextRepeat]_vars

TypeOK ==
    /\ root \in Roots
    /\ cache \in [1..Len(heap) -> {"empty", "jit", "bound"}]
    /\ lastIndex \in [PatternIds -> 0..3]
    /\ op.out.kind \in {"none", "success", "failure", "TypeError"}


(***************************************************************************)
(* Properties.                                                             *)
(***************************************************************************)
\* op is a completed validation through an entry point
IsEntry == op.name \in {"safeParse", "parse"}

\* op is a completed validation, through an entry point or the interpreter
IsValidation == op.name \in {"safeParse", "parse", "_parse"}

OpNode == NodeOf(op.node)

\* the path the entry points pass to the routine
OpPath == OpNode.path

\* the calls the validated node made itself, in order
DirectCalls == SelectSeq(op.log, LAMBDA e : e.depth = 0)

IsPrefix(p, q) == Len(p) <= Len(q) /\ SubSeq(q, 1, Len(p)) = p

\* what node.safeParse(value) returns with the cache slots c
SafeParseResult(n, v, c) ==
    Routine(n, v, NodeOf(n).path, GetCompiledParser(n, c), op.li).out

\* C1: the routine compile() stores in the cache, which parse and safeParse run,
\* gives for every schema and input the outcome of the interpreter _parse on the
\* same value and path: same variant, data, path, message and offending value.
C1_CompiledEqualsInterpreter ==
    IsEntry => op.out = Interp(op.node, op.value, OpPath, op.li).out

\* C2: safeParse never throws; parse throws exactly when safeParse on the same
\* schema and input reports failure, the thrown ValidationErrorImpl carrying that
\* failure's path, message and offending value; when safeParse succeeds, parse
\* returns the same data.
C2_ParseThrowsIffSafeParseFails ==
    /\ op.name = "safeParse" => op.thrown = "none"
    /\ op.name = "parse" =>
         LET r == SafeParseResult(op.node, op.value, cache) IN
         /\ (op.thrown # "none") <=> (r.kind = "failure")
         /\ op.thrown # "none" => op.thrown = "ValidationError" /\ op.out = r
         /\ r.kind = "success" => op.thrown = "none" /\ op.out.data = r.data


\* the outcome of the element schema on the i-th element at the extended path
ElementOutcome(n, v, p, i) ==
    Interp(NodeOf(n).elementSchema, v.xs[i], Append(p, ToString(i - 1)), op.li).out

\* the outcome of the i-th declared field's schema at the extended path
FieldOutcome(n, v, p, i) ==
    Interp(NodeOf(n).shape[i].schema, GetProp(v, NodeOf(n).shape[i].k),
           Append(p, NodeOf(n).shape[i].k), op.li).out

\* the outcome of the i-th alternative of a union on the same value and path
AlternativeOutcome(n, v, p, i) == Interp(NodeOf(n).schemas[i], v, p, op.li).out

Min(S) == CHOOSE i \in S : \A j \in S : i <= j

FailingElements(n, v, p) ==
    {i \in 1..Len(v.xs) : ElementOutcome(n, v, p, i).kind = "failure"}

FailingFields(n, v, p) ==
    {i \in 1..Len(NodeOf(n).shape) : FieldOutcome(n, v, p, i).kind = "failure"}

\* the node, value and path of the child whose failure the node has to hand on,
\* and the lastIndex of the RegExp objects when that child is called, if there is
\* such a child
FailingChild(n, v, p) ==
    LET s == NodeOf(n) IN
    CASE s.type = "object" /\ ~NotAnObject(v) /\ FailingFields(n, v, p) # {} ->
           LET i == Min(FailingFields(n, v, p)) IN
           <<[node |-> s.shape[i].schema, value |-> GetProp(v, s.shape[i].k),
              path |-> Append(p, s.shape[i].k), li |-> op.li]>>
      [] s.type = "array" /\ ArrayHead(s, v, p).kind = "success"
                          /\ FailingElements(n, v, p) # {} ->
           LET i == Min(FailingElements(n, v, p)) IN
           <<[node |-> s.elementSchema, value |-> v.xs[i],
              path |-> Append(p, ToString(i - 1)), li |-> op.li]>>
      [] s.type = "optional" /\ v.t # "undefined"
                             /\ Interp(s.schema, v, p, op.li).out.kind = "failure" ->
           <<[node |-> s.schema, value |-> v, path |-> p, li |-> op.li]>>
      [] s.type = "nullable" /\ v.t # "null"
                             /\ Interp(s.schema, v, p, op.li).out.kind = "failure" ->
           <<[node |-> s.schema, value |-> v, path |-> p, li |-> op.li]>>
      [] s.type = "refinement" /\ Interp(s.schema, v, p, op.li).out.kind = "failure" ->
           <<[node |-> s.schema, value |-> v, path |-> p, li |-> op.li]>>
      [] s.type = "pipe" /\ Interp(s.inputSchema, v, p, op.li).out.kind = "failure" ->
           <<[node |-> s.inputSchema, value |-> v, path |-> p, li |-> op.li]>>
      [] s.type = "pipe" /\ Interp(s.inputSchema, v, p, op.li).out.kind = "success"
           /\ Interp(s.outputSchema, Interp(s.inputSchema, v, p, op.li).out.data, p,
                     Interp(s.inputSchema, v, p, op.li).li).out.kind = "failure" ->
           <<[node |-> s.outputSchema, value |-> Interp(s.inputSchema, v, p, op.li).out.data,
              path |-> p, li |-> Interp(s.inputSchema, v, p, op.li).li]>>
      [] OTHER -> <<>>

RECURSIVE FailurePath(_, _, _)
\* the root's path followed by every field name and index descended through to
\* reach the failing node
FailurePath(n, v, p) ==
    LET f == FailingChild(n, v, p) IN
    IF f = <<>> THEN p ELSE FailurePath(f[1].node, f[1].value, f[1].path)

\* C3: a failure raised inside nested object and array schemas has as its path the
\* root's path followed by the field names and indices descended through, and each
\* enclosing object, array or wrapper returns the child's failure unchanged;
\* object({user: object({name: string().min(2)})}) on {user: {name: "J"}} fails
\* with path ["user", "name"].
C3_NestedFailurePath ==
    /\ (IsValidation /\ FailingChild(op.node, op.value, OpPath) # <<>>) =>
         LET f == FailingChild(op.node, op.value, OpPath)[1] IN
         /\ op.out = Interp(f.node, f.value, f.path, f.li).out
         /\ op.out.path = FailurePath(op.node, op.value, OpPath)
    /\ (IsValidation /\ op.node = 10
          /\ op.value = Obj(<<Prop("user", Obj(<<Prop("name", Str("J"))>>))>>)) =>
         op.out = Failure("String must be at least 2 characters", <<"user", "name">>, Str("J"))

\* the calls the validated array made on its element schema, in order
ElementCalls == SelectSeq(DirectCalls, LAMBDA e : e.node = OpNode.elementSchema)

\* C4: for an array input that passes the length checks, elements are validated in
\* increasing index order up to the first failing one; the result is exactly that
\* element's failure, its path the array's path followed by that element's index,
\* and no later element is validated.
C4_ArrayFailFast ==
    (/\ IsValidation
     /\ OpNode.type = "array"
     /\ ArrayHead(OpNode, op.value, OpPath).kind = "success"
     /\ FailingElements(op.node, op.value, OpPath) # {}) =>
        LET i == Min(FailingElements(op.node, op.value, OpPath)) IN
        /\ op.out = ElementOutcome(op.node, op.value, OpPath, i)
        /\ IsPrefix(Append(OpPath, ToString(i - 1)), op.out.path)
        /\ Len(ElementCalls) = i
        /\ \A k \in 1..i :
             /\ ElementCalls[k].value = op.value.xs[k]
             /\ ElementCalls[k].path = Append(OpPath, ToString(k - 1))

SucceedingAlternatives(n, v, p) ==
    {i \in 1..Len(NodeOf(n).schemas) : AlternativeOutcome(n, v, p, i).kind = "success"}

\* C5: a union tries its alternatives in declared order on the same input and path
\* and returns unchanged the success of the first one that succeeds; the
\* alternatives after it are not tried.
C5_UnionFirstMatch ==
    (/\ IsValidation
     /\ OpNode.type = "union"
     /\ SucceedingAlternatives(op.node, op.value, OpPath) # {}) =>
        LET i == Min(SucceedingAlternatives(op.node, op.value, OpPath)) IN
        /\ op.out = AlternativeOutcome(op.node, op.value, OpPath, i)
        /\ Len(DirectCalls) = i
        /\ \A k \in 1..i :
             /\ DirectCalls[k].node = OpNode.schemas[k]
             /\ DirectCalls[k].value = op.value
             /\ DirectCalls[k].path = OpPath

\* C6: when every alternative of a union fails, and always for the empty union,
\* validation returns one validation failure (not a runtime error) at the union's
\* path with the input as offending value and the message "Value does not match
\* any schema in union: " followed by the alternatives' messages joined by "; ".
C6_UnionExhausted ==
    (/\ IsValidation
     /\ OpNode.type = "union"
     /\ SucceedingAlternatives(op.node, op.value, OpPath) = {}) =>
        /\ op.thrown # "TypeError"
        /\ op.out =
             Failure("Value does not match any schema in union: "
                       \o JoinMessages([i \in 1..Len(OpNode.schemas) |->
                                          AlternativeOutcome(op.node, op.value, OpPath, i)], 1),
                     OpPath, op.value)


DeclaredKeys(n) == {NodeOf(n).shape[i].k : i \in 1..Len(NodeOf(n).shape)}

\* C7: when an object schema succeeds, its output is a record built from nothing
\* whose keys are exactly the declared field names, each holding that field
\* schema's validated value; a key of the input that is not declared is absent
\* from the output.
C7_ObjectOutputDeclaredFieldsOnly ==
    (IsValidation /\ OpNode.type = "object" /\ op.out.kind = "success") =>
        /\ op.out.data.t = "object"
        /\ Keys(op.out.data) = DeclaredKeys(op.node)
        /\ Len(op.out.data.ps) = Len(OpNode.shape)
        /\ \A i \in 1..Len(OpNode.shape) :
             /\ FieldOutcome(op.node, op.value, OpPath, i).kind = "success"
             /\ GetProp(op.out.data, OpNode.shape[i].k)
                  = FieldOutcome(op.node, op.value, OpPath, i).data
        /\ \A k \in Keys(op.value) \ DeclaredKeys(op.node) : k \notin Keys(op.out.data)

\* an object schema with a declared field has succeeded on an input that also has
\* an undeclared key
C7_Witness ==
    /\ IsValidation
    /\ OpNode.type = "object"
    /\ OpNode.shape # <<>>
    /\ op.out.kind = "success"
    /\ Keys(op.value) \ DeclaredKeys(op.node) # {}

\* C8: an object schema, whatever its shape, fails for every input that is not a
\* non-null structured record: null, undefined, strings, numbers, booleans and
\* arrays are all rejected.
C8_ObjectRejectsNonRecords ==
    (IsValidation /\ OpNode.type = "object" /\ op.value.t # "object") =>
        op.out.kind # "success"

\* the calls of the predicate the validated refinement node made, in order
PredicateCalls == SelectSeq(DirectCalls, LAMBDA e : e.fn = "refineFn")

\* C9: a refinement node validates with the wrapped schema first; a failure of the
\* wrapped schema is returned unchanged and the predicate is not called; on
\* success the predicate is called once on the validated value, a false result
\* gives a failure at the same path with the supplied message and the validated
\* value as offending value, and otherwise the wrapped success is returned.
C9_RefinementAfterWrapped ==
    (IsValidation /\ OpNode.type = "refinement") =>
        LET r == Interp(OpNode.schema, op.value, OpPath, op.li).out IN
        /\ r.kind = "failure" => op.out = r /\ PredicateCalls = <<>>
        /\ r.kind = "success" =>
             /\ Len(PredicateCalls) = 1
             /\ PredicateCalls[1].value = r.data
             /\ op.out = IF RefineFn(OpNode.refineFn, r.data) THEN r
                         ELSE Failure(OpNode.errorMessage, OpPath, r.data)

\* C10: an optional wrapper given undefined succeeds with undefined without
\* invoking the wrapped schema, a nullable wrapper does the same for null, and on
\* every other input each returns exactly the wrapped schema's outcome for the
\* same value and path.
C10_OptionalNullableDelegate ==
    (IsValidation /\ OpNode.type \in {"optional", "nullable"}) =>
        LET sentinel == IF OpNode.type = "optional" THEN Undefined ELSE Null IN
        IF op.value = sentinel
        THEN op.out = Success(sentinel) /\ op.log = <<>>
        ELSE op.out = Interp(OpNode.schema, op.value, OpPath, op.li).out

\* C11: optional and nullable wrappers compose in the nesting order applied:
\* string().optional().nullable() succeeds with undefined on undefined, with null
\* on null, with the same string on any string, and fails with the string
\* type-mismatch failure on every other value.
C11_OptionalNullableCompose ==
    (/\ IsValidation
     /\ OpNode.type = "nullable"
     /\ NodeOf(OpNode.schema).type = "optional"
     /\ NodeOf(NodeOf(OpNode.schema).schema) = Node("string")) =>
        op.out = CASE op.value.t = "undefined" -> Success(Undefined)
                   [] op.value.t = "null" -> Success(Null)
                   [] op.value.t = "string" -> Success(op.value)
                   [] OTHER -> Failure("Expected string, got " \o TypeOf(op.value),
                                       OpPath, op.value)

\* C12: a pipe node validates the input with its first schema; a failure is
\* returned unchanged and the second schema is not run; on success the first
\* schema's output is validated by the second schema at the same path and the
\* second schema's outcome is returned unchanged.
C12_PipeSequencing ==
    (IsValidation /\ OpNode.type = "pipe") =>
        LET input == Interp(OpNode.inputSchema, op.value, OpPath, op.li) IN
        IF input.out.kind = "failure"
        THEN /\ op.out = input.out
             /\ Len(DirectCalls) = 1
             /\ DirectCalls[1].node = OpNode.inputSchema
        ELSE /\ op.out = Interp(OpNode.outputSchema, input.out.data, OpPath, input.li).out
             /\ Len(DirectCalls) = 2
             /\ DirectCalls[1].node = OpNode.inputSchema
             /\ DirectCalls[1].value = op.value
             /\ DirectCalls[2].node = OpNode.outputSchema
             /\ DirectCalls[2].value = input.out.data
             /\ DirectCalls[2].path = OpPath

BuilderNames ==
    {"string.min", "string.max", "string.matches", "number.min", "number.max",
     "number.positive", "number.negative", "boolean.true", "boolean.false",
     "array.min", "array.max", "extend", "optional", "nullable", "refine", "pipe"}

\* the node the completed builder call returned
NewNode == heap[Len(heap)]

\* what node._parse(value, node.path) and node.safeParse(value) would give now
OutcomesNow(n, v) ==
    <<Interp(n, v, NodeOf(n).path, lastIndex).out, SafeParseResult(n, v, cache)>>

\* C13: every builder call (min, max, matches on strings; min, max, positive,
\* negative on numbers; true, false on booleans; min, max on arrays; extend on
\* objects; optional, nullable, refine, pipe on any node) returns a new node and
\* leaves the receiver's constraints, path and cache slot unchanged, so that the
\* receiver gives the same outcome for every input before and after the call.
C13_BuildersLeaveReceiver ==
    [][(op = NoOp /\ op'.name \in BuilderNames) =>
         /\ Len(heap') = Len(heap) + 1
         /\ \A n \in 1..Len(heap) : heap'[n] = heap[n] /\ cache'[n] = cache[n]
         /\ lastIndex' = lastIndex
         /\ \E r \in 1..Len(heap) :
              /\ r = op'.node
              /\ \A v \in BuildInputs : OutcomesNow(r, v)' = OutcomesNow(r, v)]_vars

\* a builder has been called on a node whose cache slot was populated, and has
\* returned a node that is configured differently from the receiver
C13_Witness ==
    /\ op.name \in BuilderNames
    /\ cache[op.node] # "empty"
    /\ NewNode # NodeOf(op.node)

\* the builders that add a constraint to a string, number, boolean or array node
ConstraintBuilders == BuilderNames \ {"extend", "optional", "nullable", "refine", "pipe"}

\* the field of the node a constraint-adding builder sets
OwnField(name) ==
    CASE name \in {"string.min", "array.min"} -> "minLength"
      [] name \in {"string.max", "array.max"} -> "maxLength"
      [] name = "string.matches" -> "pattern"
      [] name = "number.min" -> "min"
      [] name = "number.max" -> "max"
      [] name = "number.positive" -> "isPositive"
      [] name = "number.negative" -> "isNegative"
      [] name = "boolean.true" -> "strictTrue"
      [] name = "boolean.false" -> "strictFalse"

\* the constraint the completed builder call asked for, as the value of its field
OwnValue ==
    CASE OwnField(op.name) \in {"minLength", "maxLength", "min", "max"} -> <<op.value.n>>
      [] OwnField(op.name) = "pattern" -> op.value.n
      [] OTHER -> TRUE

\* the fields a builder resets besides setting its own: positive() and negative()
\* reset each other, and so do true() and false()
ResetFields(name) ==
    CASE name = "number.positive" -> {"isNegative"}
      [] name = "number.negative" -> {"isPositive"}
      [] name = "boolean.true" -> {"strictFalse"}
      [] name = "boolean.false" -> {"strictTrue"}
      [] OTHER -> {}

\* the receiver of the completed builder call did not have the constraint the
\* call adds
ReceiverLacksOwn ==
    IF OwnField(op.name) = "pattern" THEN OpNode.pattern = 0
    ELSE OpNode[OwnField(op.name)] = <<>>

\* every input the receiver rejects is rejected by the returned node
AtLeastAsStrict ==
    \A v \in BuildInputs :
        Interp(op.node, v, OpPath, lastIndex).out.kind = "failure" =>
            Interp(Len(heap), v, NewNode.path, lastIndex).out.kind = "failure"

\* C14 as stated: the node returned by a constraint-adding builder carries the
\* receiver's whole prior configuration plus the new constraint, so that every
\* constraint added by an earlier call of a different builder is still enforced
\* (after negative() then positive(), or true() then false(), both are enforced).
C14_BuildersKeepEveryConstraint ==
    op.name \in ConstraintBuilders =>
        /\ NewNode[OwnField(op.name)] = OwnValue
        /\ \A f \in DOMAIN NewNode \ {OwnField(op.name)} : NewNode[f] = OpNode[f]

\* C14, amended: the node returned by a constraint-adding builder has the new
\* constraint and the receiver's path, element schema and other constraints,
\* except that positive() and negative() reset each other and true() and false()
\* reset each other; a builder that resets nothing returns a node that rejects
\* every input the receiver rejects.
C14_BuildersKeepOtherConstraints ==
    op.name \in ConstraintBuilders =>
        /\ NewNode[OwnField(op.name)] = OwnValue
        /\ \A f \in ResetFields(op.name) : NewNode[f] = FALSE
        /\ \A f \in DOMAIN NewNode \ ({OwnField(op.name)} \cup ResetFields(op.name)) :
             NewNode[f] = OpNode[f]
        /\ (ResetFields(op.name) = {} /\ ReceiverLacksOwn) => AtLeastAsStrict

\* positive() has been called on the node negative() returned, and the node it
\* returned no longer has the negative constraint
C14_Witness ==
    /\ op.name = "number.positive"
    /\ OpNode.isNegative
    /\ NewNode.isPositive
    /\ ~NewNode.isNegative

\* C20: extend(shape) on an object schema returns a new object schema whose
\* fields are the receiver's fields and the argument's fields, the argument's
\* schema being used for a name present in both; the receiver keeps its original
\* fields and validates as before.
C20_ExtendMergesShapes ==
    [][(op = NoOp /\ op'.name = "extend") =>
         \E r \in 1..Len(heap) :
           /\ r = op'.node
           /\ Len(heap') = Len(heap) + 1
           /\ heap'[r] = heap[r]
           /\ \A v \in BuildInputs : OutcomesNow(r, v)' = OutcomesNow(r, v)
           /\ LET old == heap[r].shape
                  new == heap'[Len(heap')]
                  arg == op'.value.ps
                  argKeys == {arg[i].k : i \in 1..Len(arg)}
                  oldKeys == {old[i].k : i \in 1..Len(old)}
                  newKeys == {new.shape[i].k : i \in 1..Len(new.shape)}
              IN /\ new.type = "object"
                 /\ new.path = heap[r].path
                 /\ newKeys = oldKeys \cup argKeys
                 /\ Len(new.shape) = Cardinality(newKeys)
                 /\ \A i \in 1..Len(arg) : FieldSchema(new.shape, arg[i].k) = arg[i].v.n
                 /\ \A i \in 1..Len(old) :
                      old[i].k \notin argKeys =>
                          FieldSchema(new.shape, old[i].k) = old[i].schema]_vars

\* extend has been called with a shape that declares a field the receiver has
\* and a field it has not, and the returned schema has validated an input
C20_Witness ==
    /\ op.name = "_parse"
    /\ op.node > Len(Schemas)
    /\ OpNode.type = "object"
    /\ op.out.kind = "success"
    /\ DeclaredKeys(op.node) = {"name", "extra", "age"}

\* C15: validating the same valid input twice through the same schema node, with
\* any number of other validations on that node in between, yields the same
\* output both times: validation keeps no hidden state (the state of a
\* configured pattern included) that changes a later outcome.
C15_RepeatedValidationSameOutput ==
    (/\ kept # NoOp
     /\ IsValidation
     /\ op.name = kept.name
     /\ op.node = kept.node
     /\ op.value = kept.value) =>
        op.out = kept.out

RECURSIVE Occurrences(_), OccurrencesOf(_, _)
\* the nodes of the tree below n, one entry per place a node is used in
Occurrences(n) == <<n>> \o OccurrencesOf(Children(n), 1)

OccurrencesOf(cs, i) ==
    IF i > Len(cs) THEN <<>> ELSE Occurrences(cs[i]) \o OccurrencesOf(cs, i + 1)

\* every place of the tree below n has a node of its own, and every pattern a
\* RegExp object of its own
Separate(n) ==
    LET occ == Occurrences(n) IN
    \A i, j \in 1..Len(occ) :
        i # j => /\ occ[i] # occ[j]
                 /\ NodeOf(occ[i]).pattern = 0 \/ NodeOf(occ[i]).pattern # NodeOf(occ[j]).pattern

\* a node without its references to other objects
Scalar(s) ==
    [s EXCEPT !.pattern = 0, !.elementSchema = 0, !.schemas = <<>>, !.schema = 0,
              !.inputSchema = 0, !.outputSchema = 0,
              !.shape = [i \in 1..Len(s.shape) |-> Field(s.shape[i].k, 0)]]

RECURSIVE SameConfiguration(_, _)
\* the trees below n and m are configured identically, place by place
SameConfiguration(n, m) ==
    /\ Scalar(NodeOf(n)) = Scalar(NodeOf(m))
    /\ (NodeOf(n).pattern = 0) = (NodeOf(m).pattern = 0)
    /\ NodeOf(n).pattern # 0 => Patterns[NodeOf(n).pattern] = Patterns[NodeOf(m).pattern]
    /\ Len(Children(n)) = Len(Children(m))
    /\ \A i \in 1..Len(Children(n)) : SameConfiguration(Children(n)[i], Children(m)[i])

\* what the call `name` gives on node m for value v, started with the RegExp
\* objects' lastIndex at li
OutcomeOf(name, m, v, li) ==
    IF name = "_parse" THEN Interp(m, v, NodeOf(m).path, li).out
    ELSE Routine(m, v, NodeOf(m).path, GetCompiledParser(m, cache), li).out

\* C16: when the same node instance is used as a child of several parents, or
\* several times inside one parent, validating through a parent or through the
\* shared node, in any order with compiling, gives for every input the outcome
\* that the same schema gives when each occurrence is a separate node with
\* identical configuration (compared from a state in which no RegExp object has
\* been used yet).
C16_SharedNodeAsSeparateNodes ==
    (IsValidation /\ op.li = NewIndex) =>
        \A m \in NodeIds :
            (SameConfiguration(op.node, m) /\ Separate(m)) =>
                op.out = OutcomeOf(op.name, m, op.value, op.li)

\* the number of a present option
Bound(b) == IF b = <<>> THEN 0 ELSE b[1]

\* the checks of a primitive node in the order the claim lists them, each with
\* whether the value fails it and the message it reports; the pattern check is
\* listed only for a pattern without the g flag, whose result depends on the
\* value alone
ChecksInOrder(s, v) ==
    CASE s.type = "string" ->
           <<[fails |-> TypeOf(v) # "string", message |-> "Expected string, got " \o TypeOf(v)],
             [fails |-> s.minLength # <<>> /\ Len(v.s) < Bound(s.minLength),
              message |-> "String must be at least " \o ToString(Bound(s.minLength)) \o " characters"],
             [fails |-> s.maxLength # <<>> /\ Len(v.s) > Bound(s.maxLength),
              message |-> "String must be at most " \o ToString(Bound(s.maxLength)) \o " characters"],
             [fails |-> s.pattern # 0 /\ ~Patterns[s.pattern].global
                          /\ MatchEnd(Patterns[s.pattern], v.s, 0) = -1,
              message |-> "String does not match pattern"]>>
      [] s.type = "number" ->
           <<[fails |-> v.t # "number", message |-> "Expected number, got " \o TypeOf(v)],
             [fails |-> s.min # <<>> /\ v.n < Bound(s.min),
              message |-> "Number must be at least " \o ToString(Bound(s.min))],
             [fails |-> s.max # <<>> /\ v.n > Bound(s.max),
              message |-> "Number must be at most " \o ToString(Bound(s.max))],
             [fails |-> s.isPositive /\ ~(v.n > 0), message |-> "Number must be positive"],
             [fails |-> s.isNegative /\ ~(v.n < 0), message |-> "Number must be negative"]>>
      [] s.type = "boolean" ->
           <<[fails |-> v.t # "boolean", message |-> "Expected boolean, got " \o TypeOf(v)],
             [fails |-> s.strictTrue /\ v # Bool(TRUE), message |-> "Boolean must be true"],
             [fails |-> s.strictFalse /\ v # Bool(FALSE), message |-> "Boolean must be false"]>>

\* the checks the value fails; a value of the wrong type fails the type check only
FailingChecks(s, v) ==
    {i \in 1..Len(ChecksInOrder(s, v)) :
        /\ i = 1 \/ ~ChecksInOrder(s, v)[1].fails
        /\ ChecksInOrder(s, v)[i].fails}

\* C17: each primitive validator checks in a fixed order and reports the first
\* failing check only: string checks type, minimum length, maximum length, then
\* pattern; number checks type, min, max, positive, then negative; boolean checks
\* type, must-be-true, then must-be-false; on success the input is returned
\* unchanged.
C17_PrimitiveCheckOrder ==
    (IsValidation /\ OpNode.type \in {"string", "number", "boolean"}) =>
        LET failing == FailingChecks(OpNode, op.value) IN
        /\ failing # {} =>
             op.out = Failure(ChecksInOrder(OpNode, op.value)[Min(failing)].message,
                              OpPath, op.value)
        /\ (failing = {} /\ (OpNode.pattern = 0 \/ ~Patterns[OpNode.pattern].global)) =>
             op.out = Success(op.value)
        /\ failing = {} =>
             op.out \in {Success(op.value),
                         Failure("String does not match pattern", OpPath, op.value)}

\* a primitive node has validated a value that fails two of its checks
C17_Witness ==
    /\ IsValidation
    /\ OpNode.type \in {"string", "number", "boolean"}
    /\ Cardinality(FailingChecks(OpNode, op.value)) >= 2
    /\ op.out.kind = "failure"

\* C18: a number schema rejects every non-number and NaN; min and max are
\* inclusive bounds (a value equal to the bound passes); positive() accepts
\* exactly the values strictly greater than 0 and negative() exactly those
\* strictly less than 0, so that 0 fails both.
C18_NumberBounds ==
    (IsValidation /\ OpNode.type = "number") =>
        /\ op.out.kind \in {"success", "failure"}
        /\ op.out.kind = "success" <=>
             /\ op.value.t = "number"
             /\ OpNode.min # <<>> => op.value.n >= OpNode.min[1]
             /\ OpNode.max # <<>> => op.value.n <= OpNode.max[1]
             /\ OpNode.isPositive => op.value.n > 0
             /\ OpNode.isNegative => op.value.n < 0
        /\ op.out.kind = "success" => op.out.data = op.value
        /\ (op.value = Num(0) /\ (OpNode.isPositive \/ OpNode.isNegative)) =>
             op.out.kind = "failure"

\* parse or safeParse of a number schema has accepted a value equal to its
\* maximum
C18_Witness ==
    /\ IsEntry
    /\ OpNode.type = "number"
    /\ OpNode.max = <<op.value.n>>
    /\ op.value.t = "number"
    /\ op.out.kind = "success"

\* C19: a literal schema succeeds if and only if the input is strictly equal (no
\* coercion) to the configured literal, returning that literal; otherwise it
\* fails with the message "Expected <JSON text of the literal>, got <JSON text of
\* the input>" and the input as offending value.
C19_LiteralStrictEquality ==
    (IsValidation /\ OpNode.type = "literal") =>
        IF ~StrictNotEqual(op.value, OpNode.value)
        THEN op.out = Success(OpNode.value)
        ELSE op.out = Failure("Expected " \o JSONStringify(OpNode.value) \o ", got "
                                \o JSONStringify(op.value), OpPath, op.value)

RECURSIVE Dotted(_, _)
\* the first k segments of p, with a "." between neighbours
Dotted(p, k) ==
    IF k = 0 THEN "" ELSE IF k = 1 THEN p[1] ELSE Dotted(p, k - 1) \o "." \o p[k]

\* C21: the message of the exception thrown by parse is the path of the failure
\* the schema reports for the input, its segments joined by "." (the text
\* "<root>" when the path is empty), followed by ": " and the failure's message.
C21_ThrownMessage ==
    op.name = "parse" /\ op.thrown # "none" =>
        LET f == Interp(op.node, op.value, OpPath, op.li).out IN
        /\ f.kind = "failure"
        /\ op.message = (IF f.path = <<>> THEN "<root>" ELSE Dotted(f.path, Len(f.path)))
                           \o ": " \o f.message

\* op is a completed call that may write cache slots
IsCacheCall == op.name \in {"compile", "safeParse", "parse"}

\* C22: over any sequence of parse, safeParse and compile calls on a node and on
\* the schemas that contain it, the node's cache slot is written exactly once,
\* when it is empty: a call never writes a slot that was populated when the call
\* started, and never writes one slot twice.
C22_SlotWrittenOnce ==
    IsCacheCall =>
        \A i \in 1..Len(op.writes) :
            /\ op.c[op.writes[i]] = "empty"
            /\ \A j \in 1..(i - 1) : op.writes[j] # op.writes[i]

\* C23: a freshly constructed node has an empty cache slot; the first parse or
\* safeParse on a node populates its slot and the slots of all its descendants,
\* and a parse or safeParse on a node whose slot is populated leaves every slot
\* as it is and writes none (compile is not invoked again on the node or on a
\* descendant).
C23_LazyCompileThenReuse ==
    /\ \A n \in 1..Len(heap) : cache[n] = "empty"
    /\ [](IsEntry =>
            /\ op.c[op.node] = "empty" =>
                 \A d \in Descendants(op.node) :
                     cache[d] # "empty" /\ \E i \in 1..Len(op.writes) : op.writes[i] = d
            /\ op.c[op.node] # "empty" => op.writes = <<>> /\ cache = op.c)

\* a later validation of a node with children has reused its populated slot
C23_Witness ==
    /\ IsEntry
    /\ op.c[op.node] # "empty"
    /\ Children(op.node) # <<>>
    /\ op.writes = <<>>
    /\ \A d \in Descendants(op.node) : cache[d] # "empty"

\* the interpreter would hand (part of) the input to a child of the validated node
ReachesChild == Interp(op.node, op.value, OpPath, op.li).log # <<>>

\* C24: compilation is post-order: compile() of a node with children writes the
\* slot of every child (and so of every descendant) before it writes the node's
\* own slot, so that all of them are populated when it returns; and the routine
\* it stored, run by parse or safeParse on an input that reaches a child, calls
\* the children's cached routines, not their interpreters.
C24_PostOrderCompile ==
    /\ op.name = "compile" =>
         /\ \A d \in Descendants(op.node) : cache[d] # "empty"
         /\ op.writes[Len(op.writes)] = op.node
         /\ \A d \in Descendants(op.node) :
               \A e \in Range(Children(d)) :
                   /\ e \in Range(op.writes)
                   /\ \E i \in 1..Len(op.writes), j \in 1..Len(op.writes) :
                         i < j /\ op.writes[i] = e /\ op.writes[j] = d
    /\ IsEntry /\ Children(op.node) # <<>> /\ ReachesChild =>
         /\ DirectCalls # <<>>
         /\ \A i \in 1..Len(DirectCalls) :
               /\ DirectCalls[i].fn = "getCompiledParser"
               /\ DirectCalls[i].node \in Range(Children(op.node))

\* the paths a routine is run with
RoutinePaths == {<<>>, <<"items", "0">>}

C26_FallbackToInterpreter ==
    /\ op.name = "compile" => op.thrown = "none"
    /\ \A n \in 1..Len(heap) : TextRejected(n) /\ cache[n] # "empty" => cache[n] = "bound"
    /\ IsEntry /\ TextRejected(op.node) =>
         LET r == Interp(op.node, op.value, OpPath, op.li) IN
         /\ op.out = r.out
         /\ op.log = r.log
         /\ lastIndex = r.li
         /\ op.thrown = IF op.name = "parse" /\ r.out.kind = "failure"
                        THEN "ValidationError" ELSE "none"

\* an object whose generated text was rejected has validated a field and handed
\* on the field's failure
C26_Witness ==
    /\ IsEntry
    /\ TextRejected(op.node)
    /\ OpNode.type = "object"
    /\ cache[op.node] = "bound"
    /\ op.out.kind = "failure"
    /\ op.out.path # OpPath

\* the node kinds whose generated routine refers to members of the node
HasMembers == {"optional", "nullable", "refinement", "pipe", "array", "object", "union"}

\* C28: when parse or safeParse runs the routine compile() generated for an
\* optional, nullable, refinement, pipe, array, object or union node, the
\* routine's this.schema, this.inputSchema, this.elementSchema, this.shape and
\* this.schemas are the fields of the node, so a call that reaches a child ends
\* with a validation outcome (success or failure) and not with a runtime error.
C28_RoutineReceiverIsNode ==
    IsEntry /\ OpNode.type \in HasMembers /\ cache[op.node] = "jit" /\ ReachesChild =>
        /\ op.out.kind \in {"success", "failure"}
        /\ op.thrown # "TypeError"

\* C29: an array schema checks that the input is an array, then the minimum
\* length, then the maximum length, each with its own message, and only then
\* validates elements: an input that fails one of these checks fails with that
\* check's message (the earliest one in this order) at the array's own path,
\* whatever its elements are, and no element is validated.
C29_ArrayLengthBeforeElements ==
    IsValidation /\ OpNode.type = "array" =>
        LET s == OpNode
            v == op.value
            tooShort == s.minLength # <<>> /\ Len(v.xs) < Bound(s.minLength)
            tooLong == s.maxLength # <<>> /\ Len(v.xs) > Bound(s.maxLength)
        IN /\ ~IsArray(v) =>
                /\ op.out = Failure("Expected array, got " \o TypeOf(v), OpPath, v)
                /\ op.log = <<>>
           /\ IsArray(v) /\ tooShort =>
                /\ op.out = Failure("Array must have at least "
                                      \o ToString(Bound(s.minLength)) \o " elements", OpPath, v)
                /\ op.log = <<>>
           /\ IsArray(v) /\ ~tooShort /\ tooLong =>
                /\ op.out = Failure("Array must have at most "
                                      \o ToString(Bound(s.maxLength)) \o " elements", OpPath, v)
                /\ op.log = <<>>
           /\ op.log # <<>> => IsArray(v) /\ ~tooShort /\ ~tooLong

\* an array that is too long and holds an invalid element has failed on its length
C29_Witness ==
    /\ IsEntry
    /\ OpNode.type = "array"
    /\ IsArray(op.value)
    /\ OpNode.maxLength # <<>>
    /\ Len(op.value.xs) > Bound(OpNode.maxLength)
    /\ \E i \in 1..Len(op.value.xs) :
          ElementOutcome(op.node, op.value, OpPath, i).kind = "failure"
    /\ op.out.kind = "failure"
    /\ op.out.path = OpPath
    /\ op.log = <<>>

\* every call of a refinement predicate during the validation, in order
AllPredicateCalls == SelectSeq(op.log, LAMBDA e : e.fn = "refineFn")

\* C30: chained refinements are checked in the order they were applied: for
\* s.refine(p1, m1).refine(p2, m2) and a value s accepts, p1 runs first on the
\* validated value, p2 runs only if p1 returned true, the failure message is m1
\* when p1 rejects (also when p2 would reject too) and m2 when only p2 rejects.
C30_ChainedRefinementOrder ==
    (IsValidation /\ OpNode.type = "refinement"
       /\ NodeOf(OpNode.schema).type = "refinement") =>
        LET outer == OpNode
            inner == NodeOf(outer.schema)
            r == Interp(inner.schema, op.value, OpPath, op.li).out
        IN r.kind = "success" =>
             LET p1 == RefineFn(inner.refineFn, r.data)
                 p2 == RefineFn(outer.refineFn, r.data)
                 first == [fn |-> "refineFn", node |-> outer.schema, value |-> r.data]
                 second == [fn |-> "refineFn", node |-> op.node, value |-> r.data]
                 calls == [i \in 1..Len(AllPredicateCalls) |->
                              [fn |-> AllPredicateCalls[i].fn,
                               node |-> AllPredicateCalls[i].node,
                               value |-> AllPredicateCalls[i].value]]
             IN /\ ~p1 => /\ op.out = Failure(inner.errorMessage, OpPath, r.data)
                          /\ calls = <<first>>
                /\ p1 => /\ calls = <<first, second>>
                         /\ op.out = IF p2 THEN r
                                     ELSE Failure(outer.errorMessage, OpPath, r.data)

\* the slots after one compile() of node n on a freshly constructed tree
CompiledOnce(n) == Compile(n, [m \in 1..Len(heap) |-> "empty"])

====
